---- MODULE Spec2Model ----
(***************************************************************************)
(* gh-effective-workflow: the reference extraction of references.go        *)
(* (GetReferences) and the run resolution of main.go (runView).            *)
(*                                                                         *)
(* Strings are sequences of one-character strings.  The text of a workflow *)
(* file is a sequence of tokens: a content token stands for the characters *)
(* of one line (indentation included), and the tokens CR and LF are the    *)
(* two line-break characters, so that "a line of the file" (what the YAML  *)
(* parser counts) and "a piece of strings.Split(text, \n)" are different   *)
(* things that the code may or may not bring together.                     *)
(***************************************************************************)
EXTENDS Integers, Sequences, FiniteSets, TLC

VARIABLES
    workflows,      \* GetReferences: its argument, a sequence of Workflow
    refsOut,        \* GetReferences: what each of two executions returned
    run,            \* runView: the run's metadata as the API reports it
    headOf,         \* the commit the branch/tag of the run points to now
    pc,             \* runView: position in the function
    idx,            \* runView: index of the referenced workflow in the loop
    parsed,         \* runView: referencedRepo, path and ref of that workflow
    wfMeta,         \* runView: the metadata of the workflow looked up last
    callingContent, \* runView: callingWorkflowContent
    wfs,            \* runView: the resolved reusable workflows
    refs,           \* runView: the reference index
    out,            \* runView: what was written to opts.IO.Out
    ret             \* runView: how it ended (nil, an error, or a panic)

vars == <<workflows, refsOut, run, headOf, pc, idx, parsed, wfMeta,
          callingContent, wfs, refs, out, ret>>

refVars == <<workflows, refsOut>>
viewVars == <<run, headOf, pc, idx, parsed, wfMeta, callingContent, wfs, refs,
              out, ret>>

(***************************************************************************)
(* Bounds.                                                                 *)
(***************************************************************************)
MaxJobs == 3        \* jobs in a workflow set handed to GetReferences
MaxPathLen == 9     \* characters of a referenced-workflow path

(***************************************************************************)
(* strings.Split and strings.Join, on sequences.                           *)
(***************************************************************************)
IndexOf(s, sep) ==
    IF \E i \in 1..Len(s) : s[i] = sep
    THEN CHOOSE i \in 1..Len(s) : s[i] = sep /\ \A j \in 1..(i-1) : s[j] # sep
    ELSE 0

RECURSIVE Split(_, _)
Split(s, sep) ==
    LET i == IndexOf(s, sep) IN
    IF i = 0 THEN <<s>>
    ELSE <<SubSeq(s, 1, i-1)>> \o Split(SubSeq(s, i+1, Len(s)), sep)

RECURSIVE Join(_, _)
Join(parts, sep) ==
    IF Len(parts) = 0 THEN <<>>
    ELSE IF Len(parts) = 1 THEN parts[1]
    ELSE parts[1] \o <<sep>> \o Join(Tail(parts), sep)

(***************************************************************************)
(* Workflow text.                                                          *)
(***************************************************************************)
LF == <<"\n">>
CR == <<"\r">>
JobsToken == <<"jobs:">>
BadToken == <<"\t">>          \* a line the YAML parser rejects
JobToken(name) == <<"  job:", name>>
UsesToken(kind, value) == <<"    uses:", kind, value>>

\* Invocation strings a job may use.
X1 == <<"a", "/", "a", "/", "a", "@", "a">>
X2 == <<"a", "/", "a", "/", "a", "/", "a", "@", "a">>
Values == {X1, X2}

\* What a job says about uses: nothing, null, a string, a mapping.
UsesForms ==
    {[kind |-> "absent", value |-> <<>>], [kind |-> "null", value |-> <<>>],
     [kind |-> "map", value |-> <<>>]}
    \cup {[kind |-> "str", value |-> v] : v \in Values}

Styles == {"LF", "CRLF", "CR", "CRthenLF"}

Break(style, lineNo) ==
    CASE style = "LF" -> <<LF>>
      [] style = "CRLF" -> <<CR, LF>>
      [] style = "CR" -> <<CR>>
      [] OTHER -> IF lineNo = 1 THEN <<CR>> ELSE <<LF>>

JobName(n) == <<"j", n>>

\* The text of a workflow whose jobs have the given uses forms: the line
\* "jobs:", then per job its key line and, unless absent, its uses line,
\* each line ended by the style's line break.
RECURSIVE RenderJobs(_, _, _, _)
RenderJobs(forms, k, style, lineNo) ==
    IF k > Len(forms) THEN <<>>
    ELSE LET f == forms[k]
             key == <<JobToken(JobName(k))>> \o Break(style, lineNo)
             uses == IF f.kind = "absent" THEN <<>>
                     ELSE <<UsesToken(f.kind, f.value)>> \o Break(style, lineNo + 1)
             next == IF f.kind = "absent" THEN lineNo + 1 ELSE lineNo + 2
         IN key \o uses \o RenderJobs(forms, k + 1, style, next)

Render(forms, style) ==
    <<JobsToken>> \o Break(style, 1) \o RenderJobs(forms, 1, style, 2)

BadText == <<JobsToken, LF, BadToken, LF>>

(***************************************************************************)
(* yaml.Unmarshal into WorkflowNode (references.go:26-32, 38-41).  The     *)
(* decoder copies the node of a job's uses value into Job.Uses as it is:   *)
(* a key that is not there leaves the zero Node; a null value is a scalar  *)
(* node tagged !!null; a string is a scalar node tagged !!str; a mapping   *)
(* is a mapping node.  Node.Line is the parser's 1-based line, and the     *)
(* parser ends a line at CR LF, at a lone CR and at a lone LF.             *)
(***************************************************************************)
ZeroNode == [Kind |-> "", Tag |-> "", Value |-> <<>>, Line |-> 0]

\* The test on the node's value alone, which a null and a mapping pass too.
IsZeroValueOnly(n) == n.Value = <<>>

IsZero(n) == n.Kind = "" /\ n.Tag = "" /\ n.Value = <<>> /\ n.Line = 0

UsesNode(tok, line) ==
    CASE tok[2] = "null" -> [Kind |-> "ScalarNode", Tag |-> "!!null", Value |-> <<>>, Line |-> line]
      [] tok[2] = "str" -> [Kind |-> "ScalarNode", Tag |-> "!!str", Value |-> tok[3], Line |-> line]
      [] OTHER -> [Kind |-> "MappingNode", Tag |-> "!!map", Value |-> <<>>, Line |-> line]

IsBreak(tok) == tok = CR \/ tok = LF

\* Jobs of the text from token i on, the parser being on line `line`.
RECURSIVE ParseJobs(_, _, _, _)
ParseJobs(text, i, line, jobs) ==
    IF i > Len(text) THEN jobs
    ELSE LET tok == text[i] IN
         IF tok = CR /\ i < Len(text) /\ text[i + 1] = LF
         THEN ParseJobs(text, i + 2, line + 1, jobs)
         ELSE IF IsBreak(tok)
         THEN ParseJobs(text, i + 1, line + 1, jobs)
         ELSE IF Len(tok) = 2
         THEN ParseJobs(text, i + 1, line,
                        Append(jobs, [name |-> tok[2], Uses |-> ZeroNode]))
         ELSE IF Len(tok) = 3
         THEN ParseJobs(text, i + 1, line,
                        [jobs EXCEPT ![Len(jobs)].Uses = UsesNode(tok, line)])
         ELSE ParseJobs(text, i + 1, line, jobs)

YamlUnmarshal(text) ==
    IF \E i \in 1..Len(text) : text[i] = BadToken
    THEN [err |-> TRUE, Jobs |-> <<>>]
    ELSE [err |-> FALSE, Jobs |-> ParseJobs(text, 1, 1, <<>>)]

(***************************************************************************)
(* GetReferences (references.go:34-69).  Jobs is a Go map: `range` visits  *)
(* its entries in an order the runtime picks anew for every loop, so the   *)
(* order of each workflow's jobs is an input of the operator.              *)
(***************************************************************************)
\* The sequences that hold every element of S once
RECURSIVE PermsOf(_)
PermsOf(S) ==
    IF S = {} THEN {<<>>}
    ELSE UNION {{<<x>> \o p : p \in PermsOf(S \ {x})} : x \in S}

Perms(n) == PermsOf(1..n)

\* result[workflowRef] = append(result[workflowRef], ref), the key created
\* when it is not there (references.go:54-62)
AppendRefFirstOnly(result, key, ref) ==
    IF key \in DOMAIN result THEN result ELSE (key :> <<ref>>) @@ result

AppendRef(result, key, ref) ==
    IF key \in DOMAIN result
    THEN [result EXCEPT ![key] = Append(@, ref)]
    ELSE (key :> <<ref>>) @@ result

EmptyIndex == [k \in {} |-> <<>>]

\* What a call ends with: kind "ok" (nil error), "err" (an error and the nil
\* map) or "panic" (nothing is returned).
Returned(result) == [kind |-> "ok", err |-> "", nilMap |-> FALSE, result |-> result]
UnmarshalError ==
    [kind |-> "err", err |-> "failed to unmarshal yaml", nilMap |-> TRUE, result |-> EmptyIndex]
UnexpectedNodeType ==
    [kind |-> "err", err |-> "unexpected node type for uses", nilMap |-> TRUE, result |-> EmptyIndex]
IndexPanic ==
    [kind |-> "panic", err |-> "index out of range", nilMap |-> TRUE, result |-> EmptyIndex]
NotCalled == [kind |-> "none", err |-> "", nilMap |-> TRUE, result |-> EmptyIndex]

\* The uses node is a string: references.go:47
IsStringScalar(n) == n.Kind = "ScalarNode" /\ n.Tag = "!!str"

\* The loop over one workflow's jobs, from position k of the order on.
RECURSIVE ScanJobs(_, _, _, _, _)
ScanJobs(workflow, jobs, order, k, result) ==
    IF k > Len(jobs) THEN Returned(result)
    ELSE LET job == jobs[order[k]] IN
         IF IsZero(job.Uses) THEN ScanJobs(workflow, jobs, order, k + 1, result)
         ELSE IF ~IsStringScalar(job.Uses) THEN UnexpectedNodeType
         ELSE LET lines == Split(workflow.YAML, LF)
                  lineNo == job.Uses.Line
              IN IF lineNo - 1 >= Len(lines) THEN IndexPanic
                 ELSE ScanJobs(workflow, jobs, order, k + 1,
                               AppendRef(result, job.Uses.Value,
                                         [SourceFilename |-> workflow.Filename,
                                          SourceLine |-> lines[lineNo],
                                          SourceLineNo |-> lineNo]))

\* The loop over the workflows, from workflow w on.
RECURSIVE ScanWorkflows(_, _, _, _)
ScanWorkflows(wfList, orders, w, result) ==
    IF w > Len(wfList) THEN Returned(result)
    ELSE LET wfNode == YamlUnmarshal(wfList[w].YAML) IN
         IF wfNode.err THEN UnmarshalError
         ELSE LET r == ScanJobs(wfList[w], wfNode.Jobs, orders[w], 1, result) IN
              IF r.kind # "ok" THEN r
              ELSE ScanWorkflows(wfList, orders, w + 1, r.result)

GetReferences(wfList, orders) == ScanWorkflows(wfList, orders, 1, EmptyIndex)

NumJobs(workflow) == Len(YamlUnmarshal(workflow.YAML).Jobs)

\* The orders in which one execution may visit the jobs of each workflow,
\* from workflow w on.
RECURSIVE OrdersFrom(_, _)
OrdersFrom(wfList, w) ==
    IF w > Len(wfList) THEN {<<>>}
    ELSE {<<p>> \o rest : p \in Perms(NumJobs(wfList[w])),
                          rest \in OrdersFrom(wfList, w + 1)}

Orders(wfList) == OrdersFrom(wfList, 1)

(***************************************************************************)
(* runView (main.go:80-182): what it works on.                             *)
(***************************************************************************)
Chars == {"a", "/", "@"}
Slash == "/"
At == "@"

Commits == {"c1", "c2"}
Repos == {"base", "called"}     \* the run's repository, the called ones
KnownRef == <<"a">>             \* the branch or tag that exists

\* The workflow file of a repository as committed in a commit.
FileAt(repo, commit) ==
    CASE repo = "base" /\ commit = "c1" ->
            Render(<<[kind |-> "str", value |-> X1], [kind |-> "str", value |-> X2]>>, "LF")
      [] repo = "base" /\ commit = "c2" ->
            Render(<<[kind |-> "str", value |-> X1], [kind |-> "map", value |-> <<>>]>>, "LF")
      [] repo = "called" /\ commit = "c1" ->
            Render(<<[kind |-> "absent", value |-> <<>>]>>, "LF")
      [] OTHER ->
            Render(<<[kind |-> "str", value |-> X2]>>, "LF")

TopPath == <<"w", "/", "c", "i">>   \* workflow.Path of the run's workflow

\* wfshared.Workflow.Base(): the last element of the path
Base(path) == LET t == Split(path, Slash) IN t[Len(t)]

NoRun == [HeadBranch |-> <<>>, HeadSha |-> "", ReferencedWorkflows |-> <<>>]
NoRepo == [owner |-> <<>>, name |-> <<>>, path |-> <<>>, ref |-> <<>>]
NoMeta == [Name |-> <<>>, Path |-> <<>>]

\* How runView ended.  An error is the wrapping text, the cause, the URL of
\* the request that failed (path and ref), and the filename and the hint
\* that the text holds besides.
NotReturned ==
    [kind |-> "none", wrap |-> "", cause |-> "", url |-> <<>>, file |-> <<>>, hint |-> ""]
ReturnNil == [NotReturned EXCEPT !.kind = "nil"]
Panic(what) == [NotReturned EXCEPT !.kind = "panic", !.cause = what]
Errorf(wrap, cause, url) ==
    [NotReturned EXCEPT !.kind = "err", !.wrap = wrap, !.cause = cause, !.url = url]

(***************************************************************************)
(* The workflow sets GetReferences is called on, and its calls.            *)
(***************************************************************************)
FileNames == << <<"c", "i">>, <<"d", "e">> >>

Workflow(w, text) ==
    [Name |-> <<>>, RefPath |-> <<>>, Filename |-> FileNames[w],
     Ref |-> <<>>, SHA |-> <<>>, YAML |-> text]

\* One or two workflows of at most MaxJobs jobs in all, each one a text the
\* parser rejects or the text of its jobs in one of the line-break styles.
IsWorkflowSet(ws) ==
    \E n1, n2 \in 0..MaxJobs :
        /\ n1 + n2 <= MaxJobs
        /\ \E f1 \in [1..n1 -> UsesForms], f2 \in [1..n2 -> UsesForms] :
           \E s1, s2 \in Styles \cup {"bad"} :
              /\ s1 = "bad" => n1 = 0
              /\ s2 = "bad" => n2 = 0
              /\ LET d1 == IF s1 = "bad" THEN BadText ELSE Render(f1, s1)
                     d2 == IF s2 = "bad" THEN BadText ELSE Render(f2, s2)
                 IN \/ ws = <<Workflow(1, d1), Workflow(2, d2)>>
                    \/ n2 = 0 /\ s2 = "LF" /\ ws = <<Workflow(1, d1)>>

IdleView ==
    /\ run = NoRun
    /\ headOf = [r \in Repos |-> "c1"]
    /\ pc = "off"
    /\ idx = 0
    /\ parsed = NoRepo
    /\ wfMeta = NoMeta
    /\ callingContent = <<>>
    /\ wfs = <<>>
    /\ refs = EmptyIndex
    /\ out = <<>>
    /\ ret = NotReturned

InitRefs ==
    /\ IsWorkflowSet(workflows)
    /\ refsOut = [k \in 1..2 |-> NotCalled]
    /\ IdleView

\* One execution of GetReferences(workflows, ...): the k-th of two.
CallGetReferences(k) ==
    /\ refsOut[k].kind = "none"
    /\ \E orders \in Orders(workflows) :
          refsOut' = [refsOut EXCEPT ![k] = GetReferences(workflows, orders)]
    /\ UNCHANGED <<workflows, viewVars>>

NextRefs == CallGetReferences(1)

NextRefsTwice == \E k \in 1..2 : CallGetReferences(k)

\* GetReferences called once on a workflow set
SpecRefs == InitRefs /\ [][NextRefs]_vars

\* GetReferences called twice on the same workflow set
SpecRefsTwice == InitRefs /\ [][NextRefsTwice]_vars

(***************************************************************************)
(* What the text of a workflow says, read off the text itself: its lines   *)
(* (a line ends at CR LF, at CR or at LF, and does not hold its line       *)
(* break) and the places where a job's uses is written.                    *)
(***************************************************************************)
RECURSIVE TextLinesFrom(_, _, _)
TextLinesFrom(text, i, cur) ==
    IF i > Len(text) THEN (IF cur = <<>> THEN <<>> ELSE <<cur>>)
    ELSE IF text[i] = CR /\ i < Len(text) /\ text[i + 1] = LF
    THEN <<cur>> \o TextLinesFrom(text, i + 2, <<>>)
    ELSE IF IsBreak(text[i])
    THEN <<cur>> \o TextLinesFrom(text, i + 1, <<>>)
    ELSE TextLinesFrom(text, i + 1, Append(cur, text[i]))

TextLines(text) == TextLinesFrom(text, 1, <<>>)

\* The lines of workflow w on which a job's uses of the given kind is written.
UsesLines(w, kind) ==
    LET lines == TextLines(workflows[w].YAML) IN
    {L \in 1..Len(lines) :
        /\ Len(lines[L]) = 1
        /\ Len(lines[L][1]) = 3
        /\ lines[L][1][2] = kind}

\* The lines of workflow w on which a job uses the string X.
CallSites(w, X) ==
    {L \in UsesLines(w, "str") : TextLines(workflows[w].YAML)[L][1][3] = X}

WfIds == 1..Len(workflows)

AllParse == \A w \in WfIds : \A i \in 1..Len(workflows[w].YAML) : workflows[w].YAML[i] # BadToken
OnlyStringUses == \A w \in WfIds : UsesLines(w, "null") = {} /\ UsesLines(w, "map") = {}
NoUsesKey == \A w \in WfIds : \A kind \in {"null", "str", "map"} : UsesLines(w, kind) = {}
NoStringOrMapUses == \A w \in WfIds : \A kind \in {"str", "map"} : UsesLines(w, kind) = {}

Called(k) == refsOut[k].kind # "none"

Range(f) == {f[x] : x \in DOMAIN f}

\* The references of an index under key X that name workflow w's file.
RefsFrom(index, X, w) ==
    IF X \in DOMAIN index
    THEN {i \in 1..Len(index[X]) : index[X][i].SourceFilename = workflows[w].Filename}
    ELSE {}

TotalRefs(index) ==
    LET keys == DOMAIN index
        RECURSIVE Sum(_)
        Sum(S) == IF S = {} THEN 0
                  ELSE LET x == CHOOSE x \in S : TRUE IN Len(index[x]) + Sum(S \ {x})
    IN Sum(keys)

RECURSIVE SumCard(_, _)
SumCard(S, kind) ==
    IF S = {} THEN 0
    ELSE LET w == CHOOSE w \in S : TRUE IN
         Cardinality(UsesLines(w, kind)) + SumCard(S \ {w}, kind)

\* C1: for every job whose uses is a string written on line L of a workflow,
\* a call of GetReferences on well-formed workflows with string uses only
\* returns a Reference with SourceLineNo = L, SourceLine = line L of the text
\* and SourceFilename = the workflow's filename.
C1_SourceLineIsLineL ==
    \A k \in 1..2 :
        (Called(k) /\ AllParse /\ OnlyStringUses) =>
            \A w \in WfIds, X \in Values : \A L \in CallSites(w, X) :
                /\ refsOut[k].kind = "ok"
                /\ X \in DOMAIN refsOut[k].result
                /\ [SourceFilename |-> workflows[w].Filename,
                    SourceLine |-> TextLines(workflows[w].YAML)[L],
                    SourceLineNo |-> L] \in Range(refsOut[k].result[X])

C6_MappingUsesIsAnError ==
    \A k \in 1..2 :
        (Called(k) /\ AllParse /\ \E w \in WfIds : UsesLines(w, "map") # {}) =>
            refsOut[k] = UnexpectedNodeType

\* C7: an index that GetReferences returns has, under every invocation
\* string X, exactly one Reference per job that uses X, in whichever
\* workflow the job is: as many References naming a workflow's file as that
\* workflow has call sites of X, with the line numbers of those call sites;
\* and X is a key only if some job uses it.
C7_NoCallSiteDropped ==
    \A k \in 1..2 :
        refsOut[k].kind = "ok" =>
            LET index == refsOut[k].result IN
            /\ DOMAIN index \subseteq Values
            /\ \A X \in Values :
                  /\ X \in DOMAIN index <=> \E w \in WfIds : CallSites(w, X) # {}
                  /\ X \in DOMAIN index =>
                        /\ \A i \in 1..Len(index[X]) : \E w \in WfIds :
                              index[X][i].SourceFilename = workflows[w].Filename
                        /\ \A w \in WfIds :
                              /\ Cardinality(RefsFrom(index, X, w)) = Cardinality(CallSites(w, X))
                              /\ {index[X][i].SourceLineNo : i \in RefsFrom(index, X, w)}
                                    = CallSites(w, X)

C7_Witness ==
    /\ refsOut[1].kind = "ok"
    /\ Len(workflows) = 2
    /\ Cardinality(CallSites(1, X1)) = 2
    /\ Cardinality(CallSites(2, X1)) = 1
    /\ Len(refsOut[1].result[X1]) = 3

\* C8: two executions of GetReferences on the same workflow set return the
\* same thing.
C8_Deterministic ==
    (Called(1) /\ Called(2)) => refsOut[1] = refsOut[2]

(***************************************************************************)
(* The runs runView is called on.                                          *)
(***************************************************************************)
Declaration(path) == [Path |-> path, SHA |-> "c1", Ref |-> <<>>]

\* A path that repo.Parse rejects: the repository's name is empty.
NoRepoName == <<"a", "/", "@", "a">>

\* A path without "@".
NoAt == <<"a", "/", "a", "/", "a">>

RunPaths == Values \cup {NoRepoName, NoAt}

\* Runs of a workflow that calls none, one or two reusable workflows.
Runs ==
    {[HeadBranch |-> b, HeadSha |-> "c1", ReferencedWorkflows |-> d] :
        b \in {<<>>, KnownRef},
        d \in {<<>>} \cup {<<Declaration(p)>> : p \in RunPaths}
                     \cup {<<Declaration(p), Declaration(q)>> : p \in RunPaths, q \in RunPaths}}

\* A run whose one referenced workflow has the given path.
RunWithPath(p) ==
    [HeadBranch |-> KnownRef, HeadSha |-> "c1", ReferencedWorkflows |-> <<Declaration(p)>>]

(***************************************************************************)
(* runView (main.go:80-182), one action per call it makes.                 *)
(***************************************************************************)
\* repo.Parse of "OWNER/REPO" or "HOST/OWNER/REPO": no part may be empty
RepoParse(nwo) ==
    LET parts == Split(nwo, Slash) IN
    IF \E i \in 1..Len(parts) : parts[i] = <<>> THEN [err |-> TRUE, owner |-> <<>>, name |-> <<>>]
    ELSE IF Len(parts) = 2 THEN [err |-> FALSE, owner |-> parts[1], name |-> parts[2]]
    ELSE IF Len(parts) = 3 THEN [err |-> FALSE, owner |-> parts[2], name |-> parts[3]]
    ELSE [err |-> TRUE, owner |-> <<>>, name |-> <<>>]

\* The in-repo path taken from the second segment on instead of the third.
ParsePathOffByOne(p) ==
    LET t == Split(p, At) IN
    IF Len(t) < 2 THEN [kind |-> "panic", what |-> "index out of range", repo |-> NoRepo]
    ELSE LET segs == Split(t[1], Slash) IN
         IF Len(segs) < 2
         THEN [kind |-> "panic", what |-> "slice bounds out of range", repo |-> NoRepo]
         ELSE LET r == RepoParse(Join(SubSeq(segs, 1, 2), Slash)) IN
              IF r.err THEN [kind |-> "err", what |-> "", repo |-> NoRepo]
              ELSE [kind |-> "ok", what |-> "",
                    repo |-> [owner |-> r.owner, name |-> r.name,
                              path |-> Join(SubSeq(segs, 2, Len(segs)), Slash),
                              ref |-> t[2]]]

\* main.go:129-141: t[1] of the split on "@", t[0:2] and t[2:] of the split
\* on "/", then repo.Parse.  An index or a slice bound out of range panics.
ParsePath(p) ==
    LET t == Split(p, At) IN
    IF Len(t) < 2 THEN [kind |-> "panic", what |-> "index out of range", repo |-> NoRepo]
    ELSE LET segs == Split(t[1], Slash) IN
         IF Len(segs) < 2
         THEN [kind |-> "panic", what |-> "slice bounds out of range", repo |-> NoRepo]
         ELSE LET r == RepoParse(Join(SubSeq(segs, 1, 2), Slash)) IN
              IF r.err THEN [kind |-> "err", what |-> "", repo |-> NoRepo]
              ELSE [kind |-> "ok", what |-> "",
                    repo |-> [owner |-> r.owner, name |-> r.name,
                              path |-> Join(SubSeq(segs, 3, Len(segs)), Slash),
                              ref |-> t[2]]]

\* What a request for a file's content at a ref may answer: the API resolves
\* the ref (none: the default branch) to the commit it points to now.
ContentAnswers(ref) ==
    IF ref \in {<<>>, KnownRef} THEN {"ok", "HTTP 404", "decode"} ELSE {"HTTP 404"}

\* getWorkflowContent's error (main.go:232-240)
ContentError(answer) ==
    IF answer = "decode" THEN "failed to decode workflow file" ELSE answer

Heading(text) ==
    [what |-> "heading", name |-> text, file |-> <<>>, ref |-> <<>>, sha |-> "",
     yaml |-> <<>>, refs |-> <<>>]

\* What displayYaml writes (main.go:245-309): the heading line, then the
\* references and the YAML.  When rendering fails only the heading is out.
Display(ok, name, fileName, ref, sha, yaml, references) ==
    [what |-> IF ok THEN "yaml" ELSE "yamlHeadingOnly", name |-> name, file |-> fileName,
     ref |-> ref, sha |-> sha, yaml |-> IF ok THEN yaml ELSE <<>>,
     refs |-> IF ok THEN references ELSE <<>>]

NumRefs == Len(run.ReferencedWorkflows)

\* A ref of the run's repository or of a called one moves to another commit,
\* after the run and before runView is called.
MoveRef(r) ==
    /\ pc = "idle"
    /\ \E c \in Commits \ {headOf[r]} : headOf' = [headOf EXCEPT ![r] = c]
    /\ UNCHANGED <<refVars, run, pc, idx, parsed, wfMeta, callingContent, wfs, refs, out, ret>>

\* main.go:81-89
Start ==
    /\ pc = "idle"
    /\ \E answer \in {"ok", "failed to determine base repo", "failed to create http client"} :
          IF answer = "ok"
          THEN pc' = "getRun" /\ ret' = ret
          ELSE pc' = "done" /\ ret' = Errorf(answer, "", <<>>)
    /\ UNCHANGED <<refVars, run, headOf, idx, parsed, wfMeta, callingContent, wfs, refs, out>>

\* main.go:93-99: the API answers with a run, or not at all.  The run is one
\* of Runs or, with anyPath, a run whose one referenced workflow has any
\* path of the bounded length.
GetRun(anyPath) ==
    /\ pc = "getRun"
    /\ \/ /\ IF anyPath
             THEN \E n \in 0..MaxPathLen : \E p \in [1..n -> Chars] : run' = RunWithPath(p)
             ELSE \E r \in Runs : run' = r
          /\ out' = Append(out, Heading("Workflow file for this run"))
          /\ pc' = "getWorkflow" /\ ret' = ret
       \/ /\ run' = run /\ out' = out
          /\ pc' = "done" /\ ret' = Errorf("failed to get run", "HTTP 404", <<>>)
    /\ UNCHANGED <<refVars, headOf, idx, parsed, wfMeta, callingContent, wfs, refs>>

\* main.go:101-104
GetWorkflow ==
    /\ pc = "getWorkflow"
    /\ \E answer \in {"ok", "HTTP 404"} :
          IF answer = "ok"
          THEN /\ wfMeta' = [Name |-> <<"C", "I">>, Path |-> TopPath]
               /\ pc' = "getContent" /\ ret' = ret
          ELSE /\ wfMeta' = wfMeta
               /\ pc' = "done" /\ ret' = Errorf("failed to get workflow", answer, <<>>)
    /\ UNCHANGED <<refVars, run, headOf, idx, parsed, callingContent, wfs, refs, out>>

\* main.go:106-109
GetContent ==
    /\ pc = "getContent"
    /\ \E answer \in ContentAnswers(run.HeadBranch) :
          IF answer = "ok"
          THEN /\ callingContent' = FileAt("base", headOf["base"])
               /\ pc' = "display" /\ ret' = ret
          ELSE /\ callingContent' = callingContent
               /\ pc' = "done"
               /\ ret' = Errorf("failed to get workflow content", ContentError(answer),
                                <<wfMeta.Path, run.HeadBranch>>)
    /\ UNCHANGED <<refVars, run, headOf, idx, parsed, wfMeta, wfs, refs, out>>

\* main.go:111-113
DisplayTop ==
    /\ pc = "display"
    /\ \E ok \in BOOLEAN :
          /\ out' = Append(out, Display(ok, wfMeta.Name, Base(wfMeta.Path), run.HeadBranch,
                                        run.HeadSha, callingContent, <<>>))
          /\ IF ok
             THEN pc' = "parse" /\ ret' = ret
             ELSE pc' = "done" /\ ret' = Errorf("failed to display yaml", "render", <<>>)
    /\ idx' = 1
    /\ UNCHANGED <<refVars, run, headOf, parsed, wfMeta, callingContent, wfs, refs>>

\* main.go:127-141
ParseReferenced ==
    /\ pc = "parse"
    /\ idx <= NumRefs
    /\ LET r == ParsePath(run.ReferencedWorkflows[idx].Path) IN
          /\ parsed' = r.repo
          /\ pc' = IF r.kind = "ok" THEN "refGetWorkflow" ELSE "done"
          /\ ret' = CASE r.kind = "ok" -> ret
                      [] r.kind = "err" -> Errorf("failed to parse referenced repo", "", <<>>)
                      [] OTHER -> Panic(r.what)
    /\ UNCHANGED <<refVars, run, headOf, idx, wfMeta, callingContent, wfs, refs, out>>

\* main.go:143-146
RefGetWorkflow ==
    /\ pc = "refGetWorkflow"
    /\ \E answer \in {"ok", "HTTP 404"} :
          IF answer = "ok"
          THEN /\ wfMeta' = [Name |-> <<"N">>, Path |-> parsed.path]
               /\ pc' = "refGetContent" /\ ret' = ret
          ELSE /\ wfMeta' = wfMeta
               /\ pc' = "done" /\ ret' = Errorf("failed to get workflow", answer, <<>>)
    /\ UNCHANGED <<refVars, run, headOf, idx, parsed, callingContent, wfs, refs, out>>

\* The loop showing each reusable workflow as soon as it is resolved.
RefGetContentShown ==
    /\ pc = "refGetContent"
    /\ \E answer \in ContentAnswers(parsed.ref) :
          IF answer = "ok"
          THEN /\ wfs' = Append(wfs, [Name |-> wfMeta.Name,
                                      RefPath |-> run.ReferencedWorkflows[idx].Path,
                                      Filename |-> Base(wfMeta.Path),
                                      Ref |-> parsed.ref,
                                      SHA |-> run.ReferencedWorkflows[idx].SHA,
                                      YAML |-> FileAt("called", headOf["called"])])
               /\ out' = out \o <<Heading("Called reusable workflow file"),
                                  Display(TRUE, wfMeta.Name, Base(wfMeta.Path), parsed.ref,
                                          run.ReferencedWorkflows[idx].SHA,
                                          FileAt("called", headOf["called"]), <<>>)>>
               /\ idx' = idx + 1
               /\ pc' = "parse" /\ ret' = ret
          ELSE /\ wfs' = wfs /\ idx' = idx /\ out' = out
               /\ pc' = "done"
               /\ ret' = Errorf("failed to get workflow content", ContentError(answer),
                                <<parsed.path, parsed.ref>>)
    /\ UNCHANGED <<refVars, run, headOf, parsed, wfMeta, callingContent, refs>>

\* main.go:148-162
RefGetContent ==
    /\ pc = "refGetContent"
    /\ \E answer \in ContentAnswers(parsed.ref) :
          IF answer = "ok"
          THEN /\ wfs' = Append(wfs, [Name |-> wfMeta.Name,
                                      RefPath |-> run.ReferencedWorkflows[idx].Path,
                                      Filename |-> Base(wfMeta.Path),
                                      Ref |-> parsed.ref,
                                      SHA |-> run.ReferencedWorkflows[idx].SHA,
                                      YAML |-> FileAt("called", headOf["called"])])
               /\ idx' = idx + 1
               /\ pc' = "parse" /\ ret' = ret
          ELSE /\ wfs' = wfs /\ idx' = idx
               /\ pc' = "done"
               /\ ret' = Errorf("failed to get workflow content", ContentError(answer),
                                <<parsed.path, parsed.ref>>)
    /\ UNCHANGED <<refVars, run, headOf, parsed, wfMeta, callingContent, refs, out>>

\* main.go:118-125
CallingWorkflow ==
    [Name |-> <<"C", "I">>, RefPath |-> TopPath, Filename |-> Base(TopPath),
     Ref |-> run.HeadBranch, SHA |-> run.HeadSha, YAML |-> callingContent]

\* main.go:165-170
CalculateRefs ==
    /\ pc = "parse"
    /\ idx > NumRefs
    /\ LET allWorkflows == <<CallingWorkflow>> \o wfs IN
       \E orders \in Orders(allWorkflows) :
          LET r == GetReferences(allWorkflows, orders) IN
          /\ refs' = r.result
          /\ pc' = IF r.kind = "ok" THEN "output" ELSE "done"
          /\ ret' = CASE r.kind = "ok" -> ret
                      [] r.kind = "err" -> Errorf("failed to get references", r.err, <<>>)
                      [] OTHER -> Panic(r.err)
    /\ idx' = 1
    /\ UNCHANGED <<refVars, run, headOf, parsed, wfMeta, callingContent, wfs, out>>

\* main.go:173-179
DisplayCalled ==
    /\ pc = "output"
    /\ idx <= Len(wfs)
    /\ LET wf == wfs[idx]
           references == IF wf.RefPath \in DOMAIN refs THEN refs[wf.RefPath] ELSE <<>>
       IN \E ok \in BOOLEAN :
          /\ out' = out \o <<Heading("Called reusable workflow file"),
                             Display(ok, wf.Name, wf.Filename, wf.Ref, wf.SHA, wf.YAML,
                                     references)>>
          /\ IF ok
             THEN pc' = "output" /\ ret' = ret /\ idx' = idx + 1
             ELSE /\ pc' = "done" /\ idx' = idx
                  /\ ret' = Errorf("failed to display yaml", "render", <<>>)
    /\ UNCHANGED <<refVars, run, headOf, parsed, wfMeta, callingContent, wfs, refs>>

\* main.go:181
Return ==
    /\ pc = "output"
    /\ idx > Len(wfs)
    /\ pc' = "done"
    /\ ret' = ReturnNil
    /\ UNCHANGED <<refVars, run, headOf, idx, parsed, wfMeta, callingContent, wfs, refs, out>>

\* Before runView is called.  The run was made when every ref pointed to
\* commit c1, which is the commit its metadata records.
Init ==
    /\ workflows = <<>>
    /\ refsOut = [k \in 1..2 |-> NotCalled]
    /\ run = NoRun
    /\ headOf = [r \in Repos |-> "c1"]
    /\ pc = "idle"
    /\ idx = 0
    /\ parsed = NoRepo
    /\ wfMeta = NoMeta
    /\ callingContent = <<>>
    /\ wfs = <<>>
    /\ refs = EmptyIndex
    /\ out = <<>>
    /\ ret = NotReturned

NextView(anyPath) ==
    \/ Start
    \/ GetRun(anyPath)
    \/ GetWorkflow
    \/ GetContent
    \/ DisplayTop
    \/ ParseReferenced
    \/ RefGetWorkflow
    \/ RefGetContent
    \/ CalculateRefs
    \/ DisplayCalled
    \/ Return

Next ==
    \/ \E r \in Repos : MoveRef(r)
    \/ NextView(FALSE)

NextAnyPath == NextView(TRUE)

\* runView called some time after the run, the refs having moved or not
Spec == Init /\ [][Next]_vars

\* runView on a run whose referenced workflow has an arbitrary path
SpecAnyPath == Init /\ [][NextAnyPath]_vars

(***************************************************************************)
(* Properties of runView.                                                  *)
(***************************************************************************)
InLoop == idx \in 1..NumRefs /\ pc \in {"parse", "refGetWorkflow", "refGetContent", "done"}
CurPath == run.ReferencedWorkflows[idx].Path

Count(s, c) == Cardinality({i \in 1..Len(s) : s[i] = c})

\* The part of a path before its first "@" (all of it when it has none)
BeforeAt(p) == IF IndexOf(p, At) = 0 THEN p ELSE SubSeq(p, 1, IndexOf(p, At) - 1)

\* The first and second "/" of a string (0: there is none)
Slash1(p) == IndexOf(p, Slash)
Slash2(p) ==
    IF Slash1(p) = 0 THEN 0
    ELSE LET rest == SubSeq(p, Slash1(p) + 1, Len(p)) IN
         IF IndexOf(rest, Slash) = 0 THEN 0 ELSE Slash1(p) + IndexOf(rest, Slash)

\* No "@", or fewer than three "/"-delimited segments before the "@", or an
\* empty owner or repository segment.
Malformed(p) ==
    \/ Count(p, At) = 0
    \/ Count(BeforeAt(p), Slash) < 2
    \/ Slash1(p) = 1
    \/ Slash2(p) = Slash1(p) + 1

\* owner/repo/<path>@ref with exactly one "@"
WellFormed(p) == Count(p, At) = 1 /\ ~Malformed(p)

\* C2: the content fetched for the run's workflow is the file at the run's
\* head commit, and the content fetched for each reusable workflow is the
\* file at the commit its declaration records.
C2_PinnedToTheRunsCommits ==
    /\ callingContent # <<>> => callingContent = FileAt("base", run.HeadSha)
    /\ \A j \in 1..Len(wfs) : wfs[j].YAML = FileAt("called", run.ReferencedWorkflows[j].SHA)

\* C3: a malformed referenced path never makes runView panic, and runView
\* never goes on to look up a workflow for it.
C3_MalformedIsAnError ==
    /\ ret.kind # "panic"
    /\ (InLoop /\ pc \in {"refGetWorkflow", "refGetContent"}) => ~Malformed(CurPath)

\* C4: for a well-formed path owner/repo/<path>@ref the parsing neither
\* panics nor fails, and owner, repo, path and ref are recovered: owner and
\* repo hold no "/", and owner/repo/path@ref is the string that was parsed.
C4_RoundTrip ==
    (InLoop /\ WellFormed(CurPath)) =>
        /\ ret.kind # "panic"
        /\ ret.wrap # "failed to parse referenced repo"
        /\ pc \in {"refGetWorkflow", "refGetContent"} =>
              /\ parsed.owner \o <<Slash>> \o parsed.name \o <<Slash>> \o parsed.path
                    \o <<At>> \o parsed.ref = CurPath
              /\ Count(parsed.owner, Slash) = 0 /\ parsed.owner # <<>>
              /\ Count(parsed.name, Slash) = 0 /\ parsed.name # <<>>

C4_Witness ==
    /\ InLoop /\ WellFormed(CurPath)
    /\ CurPath = X2
    /\ pc = "refGetWorkflow"
    /\ parsed = [owner |-> <<"a">>, name |-> <<"a">>, path |-> <<"a", "/", "a">>,
                 ref |-> <<"a">>]

\* The lookups, the parsing and the aggregation that a run of runView may
\* fail in.
ResolutionErrors ==
    {"failed to get run", "failed to get workflow", "failed to get workflow content",
     "failed to parse referenced repo", "failed to get references"}

ResolutionFailed ==
    \/ ret.kind = "err" /\ ret.wrap \in ResolutionErrors
    \/ ret.kind = "panic"

C10_NotFoundSuggestsAnotherRef ==
    (ret.kind = "err" /\ ret.wrap = "failed to get workflow content" /\ ret.cause = "HTTP 404") =>
        /\ ret.file = Base(wfMeta.Path) \/ Base(ret.url[1]) = Base(wfMeta.Path)
        /\ ret.url[2] # <<>> => ret.hint # ""

====
